---- MODULE Spec2Model ----
(***************************************************************************)
(* CouchServer (src/couchserver/server.py): the account, organization,    *)
(* catalog and session request handlers over the embedded store.          *)
(*                                                                         *)
(* Text (usernames, passwords) is a sequence of character codes, so that   *)
(* strip(), lower(), the XOR stream cipher and base64 are computed.        *)
(* HMAC-SHA256 and PBKDF2 are modelled as injective tagged values.         *)
(* Optional integer fields use Null (0): row ids, ranks and dates are >= 1.*)
(***************************************************************************)
EXTENDS Integers, Sequences, FiniteSets, TLC

\* ------------------------------------------------------------------ bounds
MaxUsers == 2
MaxSalt == 1
MaxOrgs == 2
MaxSessions == 1
MaxTime == 2
MaxDate == 2
MaxRank == 2
MaxChartRows == 2
MaxApps == 2
MaxLen == 3
MaxProcs == 2

\* ------------------------------------------------------------------ constants
Null == 0
PASSWORD_ITERATIONS == 120000
\* sha256(USERNAME_KEY).digest() for the default secret "couchsuite-secret"
UsernameKeyStream ==
    <<102, 203, 83, 12, 87, 226, 177, 207, 157, 251, 126, 38, 17, 240, 139, 12,
      71, 217, 74, 135, 126, 159, 109, 222, 234, 12, 54, 230, 48, 25, 226, 188>>


\* ------------------------------------------------------------------ text
IsSpace(c) == c = 32 \/ (c >= 9 /\ c <= 13)

\* str.lower() on ASCII
LowerChar(c) == IF c >= 65 /\ c <= 90 THEN c + 32 ELSE c
Lower(s) == [i \in 1..Len(s) |-> LowerChar(s[i])]

RECURSIVE LStrip(_)
LStrip(s) == IF s # <<>> /\ IsSpace(Head(s)) THEN LStrip(Tail(s)) ELSE s

RECURSIVE RStrip(_)
RStrip(s) ==
    IF s # <<>> /\ IsSpace(s[Len(s)]) THEN RStrip(SubSeq(s, 1, Len(s) - 1)) ELSE s

\* str.strip()
Strip(s) == RStrip(LStrip(s))

\* ------------------------------------------------------------------ crypto
RECURSIVE Xor(_, _)
Xor(a, b) ==
    IF a = 0 THEN b
    ELSE IF b = 0 THEN a
    ELSE (((a % 2) + (b % 2)) % 2) + 2 * Xor(a \div 2, b \div 2)

\* bytes(b ^ key[index % len(key)] for index, b in enumerate(data))
XorStream(data) ==
    [i \in 1..Len(data) |->
        Xor(data[i], UsernameKeyStream[((i - 1) % Len(UsernameKeyStream)) + 1])]

\* base64: sextets 0..63, and 64 for the padding "="
RECURSIVE B64Encode(_)
B64Encode(bytes) ==
    IF Len(bytes) = 0 THEN <<>>
    ELSE IF Len(bytes) = 1 THEN
        <<bytes[1] \div 4, (bytes[1] % 4) * 16, 64, 64>>
    ELSE IF Len(bytes) = 2 THEN
        <<bytes[1] \div 4, (bytes[1] % 4) * 16 + bytes[2] \div 16,
          (bytes[2] % 16) * 4, 64>>
    ELSE
        <<bytes[1] \div 4, (bytes[1] % 4) * 16 + bytes[2] \div 16,
          (bytes[2] % 16) * 4 + bytes[3] \div 64, bytes[3] % 64>>
        \o B64Encode(SubSeq(bytes, 4, Len(bytes)))

RECURSIVE B64Decode(_)
B64Decode(text) ==
    IF Len(text) < 4 THEN <<>>
    ELSE LET a == text[1]
             b == text[2]
             c == text[3]
             d == text[4]
             b1 == a * 4 + b \div 16
             b2 == (b % 16) * 16 + c \div 4
             b3 == (c % 4) * 64 + d
         IN  IF c = 64 THEN <<b1>>
             ELSE IF d = 64 THEN <<b1, b2>>
             ELSE <<b1, b2, b3>> \o B64Decode(SubSeq(text, 5, Len(text)))

\* mutant: the digest of the stripped username, case kept
username_digest_CaseKept(username) == [hmac |-> Strip(username)]

\* hmac.new(USERNAME_KEY, strip().lower()): an injective image of the
\* normalized username
username_digest(username) == [hmac |-> Lower(Strip(username))]

\* mutant: the normalized (lower-cased) username is what gets encrypted
encrypt_username_Lowered(username) == B64Encode(XorStream(Lower(username)))

encrypt_username(username) == B64Encode(XorStream(username))

decrypt_username(cipher_text) == XorStream(B64Decode(cipher_text))

\* pbkdf2_hmac: an injective image of (password, salt, iterations)
Pbkdf2(password, salt, iterations) ==
    [pbkdf2 |-> password, salt |-> salt, iterations |-> iterations]

\* mutant: the hash is derived without the salt that is stored with it
hash_password_Unsalted(password, salt) ==
    [hash |-> Pbkdf2(password, <<>>, PASSWORD_ITERATIONS),
     salt |-> B64Encode(salt),
     iterations |-> PASSWORD_ITERATIONS]

hash_password(password, salt) ==
    [hash |-> Pbkdf2(password, salt, PASSWORD_ITERATIONS),
     salt |-> B64Encode(salt),
     iterations |-> PASSWORD_ITERATIONS]

\* mutant: the stored salt text is used without decoding it
verify_password_RawSalt(password, password_hash, salt, iterations) ==
    Pbkdf2(password, salt, iterations) = password_hash

verify_password(password, password_hash, salt, iterations) ==
    Pbkdf2(password, B64Decode(salt), iterations) = password_hash

\* json.dumps / json.loads of a settings dict: the object's members
JsonDumps(settings) == {<<k, settings[k]>> : k \in DOMAIN settings}

JsonLoads(text) ==
    [k \in {m[1] : m \in text} |-> (CHOOSE m \in text : m[1] = k)[2]]

\* ------------------------------------------------------------------ state
VARIABLES
    users,              \* Seq of user rows; the row id is the index
    orgs,               \* Seq of [slug, name]; the row id is the index
    memberships,        \* set of [org_id, user_id, role], key (org_id, user_id)
    user_settings,      \* set of [user_id, settings_json]
    apps,               \* Seq of app rows in rowid order, key id
    user_apps,          \* set of [user_id, app_id, installed]
    games,              \* set of [id, slug, name]
    game_external_ids,  \* set of [game_id, platform, external_id]
    charts_top10,       \* set of [chart_date, rank, steam_appid, game_id, name]
    downloaded_games,   \* set of [org_id, game_id]
    user_accounts,      \* set of [org_id, user_id, platform, account_id]
    user_game_library,  \* set of library rows, key (org_id, user_id, game_id)
    sessions,           \* Seq of session rows; the row id is the index
    req,                \* the last request
    resp,               \* its response
    registered          \* history: the successful registrations

acctVars == <<users, orgs, memberships, user_settings, registered>>
catVars == <<apps, user_apps, games, game_external_ids, charts_top10, downloaded_games>>
scopedVars == <<user_accounts, user_game_library, sessions>>
store == <<users, orgs, memberships, user_settings, apps, user_apps, games,
           game_external_ids, charts_top10, downloaded_games, user_accounts,
           user_game_library, sessions>>
vars == <<users, orgs, memberships, user_settings, apps, user_apps, games,
          game_external_ids, charts_top10, downloaded_games, user_accounts,
          user_game_library, sessions, req, resp, registered>>

\* ------------------------------------------------------------------ queries
\* text comparison of ORDER BY (BINARY collation): a < b
RECURSIVE LexLess(_, _)
LexLess(a, b) ==
    IF b = <<>> THEN FALSE
    ELSE IF a = <<>> THEN TRUE
    ELSE IF Head(a) # Head(b) THEN Head(a) < Head(b)
    ELSE LexLess(Tail(a), Tail(b))

\* str(n) of a number 0..99
Str(n) == IF n < 10 THEN <<48 + n>> ELSE <<48 + (n \div 10), 48 + (n % 10)>>

\* rows of S in ascending key order (keys are distinct integers)
RECURSIVE OrderBy(_, _)
OrderBy(S, key) ==
    IF S = {} THEN <<>>
    ELSE LET first == CHOOSE x \in S : \A y \in S : key[x] <= key[y]
         IN  <<first>> \o OrderBy(S \ {first}, key)

HttpError(status, detail) == [status |-> status, detail |-> detail]

\* mutant: the membership gate lets everyone through
user_in_org_Open(membT, user_id, org_id) == TRUE

\* mutant: a membership in any organization passes the gate
user_in_org_AnyOrg(membT, user_id, org_id) ==
    \E m \in membT : m.user_id = user_id

user_in_org(membT, user_id, org_id) ==
    \E m \in membT : m.org_id = org_id /\ m.user_id = user_id

\* memberships JOIN orgs WHERE user_id=? ORDER BY o.name (equal names in id order)
fetch_orgs_for_user(orgsT, membT, user_id) ==
    LET rows == {m \in membT : m.user_id = user_id /\ m.org_id \in 1..Len(orgsT)}
        before(m) == {n \in rows : LexLess(orgsT[n.org_id].name,
                                             orgsT[m.org_id].name)}
        key == [m \in rows |->
                   Cardinality(before(m)) * (Len(orgsT) + 1) + m.org_id]
        sorted == OrderBy(rows, key)
    IN  [i \in 1..Len(sorted) |->
            [id |-> sorted[i].org_id, slug |-> orgsT[sorted[i].org_id].slug,
             name |-> orgsT[sorted[i].org_id].name, role |-> sorted[i].role]]

\* mutant: the downloads of every organization count
fetch_install_map_AnyOrg(org_id) == {d.game_id : d \in downloaded_games}

\* game ids with a downloaded_games row (of the organization, when one is given)
fetch_install_map(org_id) ==
    IF org_id = Null THEN {d.game_id : d \in downloaded_games}
    ELSE {d.game_id : d \in {x \in downloaded_games : x.org_id = org_id}}

\* mutant: the library rows of every user of the organization count
fetch_ownership_map_AnyUser(org_id, user_id) ==
    IF org_id = Null \/ user_id = Null THEN {}
    ELSE {l.game_id : l \in {x \in user_game_library : x.org_id = org_id}}

fetch_ownership_map(org_id, user_id) ==
    IF org_id = Null \/ user_id = Null THEN {}
    ELSE {l.game_id : l \in {x \in user_game_library :
                                x.org_id = org_id /\ x.user_id = user_id}}

\* mutant: the rows of the snapshot by descending rank
ChartRowsOf_Descending(chart_date) ==
    LET rows == {c \in charts_top10 : c.chart_date = chart_date}
    IN  OrderBy(rows, [c \in rows |-> 0 - c.rank])

\* SELECT ... FROM charts_top10 WHERE chart_date=? ORDER BY rank
ChartRowsOf(chart_date) ==
    LET rows == {c \in charts_top10 : c.chart_date = chart_date}
    IN  OrderBy(rows, [c \in rows |-> c.rank])

\* mutant: the oldest snapshot (ORDER BY chart_date ASC)
LatestChartDate_Oldest ==
    IF charts_top10 = {} THEN Null
    ELSE CHOOSE d \in {c.chart_date : c \in charts_top10} :
            \A c \in charts_top10 : c.chart_date >= d

\* SELECT chart_date FROM charts_top10 ORDER BY chart_date DESC LIMIT 1
LatestChartDate ==
    IF charts_top10 = {} THEN Null
    ELSE CHOOSE d \in {c.chart_date : c \in charts_top10} :
            \A c \in charts_top10 : c.chart_date <= d

SelectChartRows(chart_date) ==
    IF chart_date # Null THEN ChartRowsOf(chart_date)
    ELSE IF LatestChartDate = Null THEN <<>>
    ELSE ChartRowsOf(LatestChartDate)

\* games.get(chart["game_id"]) if chart["game_id"] else None, as a set of rows
GameRowOf(game_id) ==
    IF game_id = Null THEN {} ELSE {g \in games : g.id = game_id}

\* mutant: the app is looked up by its name
AppRowOf_ByName(app_id) ==
    {apps[i] : i \in {j \in 1..Len(apps) : apps[j].name = app_id}}

\* apps_map.get(slug), as a set of rows
AppRowOf(app_id) == {apps[i] : i \in {j \in 1..Len(apps) : apps[j].id = app_id}}

\* f"chart-{chart_date}-{rank}" and f"game-{id}"
ChartSlug(chart_date, rank) ==
    <<99, 104, 97, 114, 116, 45>> \o Str(chart_date) \o <<45>> \o Str(rank)

GameSlugOf(id) == <<103, 97, 109, 101, 45>> \o Str(id)

\* one entry of the chart loop of build_catalog
ChartEntryOf(chart, index, org_id, user_id) ==
    IF GameRowOf(chart.game_id) = {}
    THEN [id |-> ChartSlug(chart.chart_date, chart.rank),
          name |-> chart.name, moonlight_name |-> chart.name, enabled |-> TRUE,
          sort_order |-> index, installed |-> FALSE, owned |-> FALSE,
          chart_rank |-> chart.rank, chart_date |-> chart.chart_date,
          game_id |-> Null, steam_appid |-> chart.steam_appid]
    ELSE LET game_row == CHOOSE g \in GameRowOf(chart.game_id) : TRUE
             slug == IF game_row.slug # <<>> THEN game_row.slug
                     ELSE GameSlugOf(game_row.id)
             app_rows == AppRowOf(slug)
             app_row == CHOOSE a \in app_rows : TRUE
         IN  [id |-> slug, name |-> game_row.name,
              moonlight_name |-> IF app_rows # {} THEN app_row.moonlight_name
                                 ELSE game_row.name,
              enabled |-> IF app_rows # {} THEN app_row.enabled ELSE TRUE,
              sort_order |-> IF app_rows # {} THEN app_row.sort_order
                             ELSE chart.rank,
              installed |-> game_row.id \in fetch_install_map(org_id),
              owned |-> game_row.id \in fetch_ownership_map(org_id, user_id),
              chart_rank |-> chart.rank, chart_date |-> chart.chart_date,
              game_id |-> game_row.id, steam_appid |-> chart.steam_appid]

\* mutant: a fallback entry is always installed
AppEntryOf_Installed(row) ==
    [id |-> row.id, name |-> row.name, moonlight_name |-> row.moonlight_name,
     enabled |-> row.enabled, sort_order |-> row.sort_order,
     installed |-> TRUE, owned |-> FALSE, chart_rank |-> Null,
     chart_date |-> Null, game_id |-> Null, steam_appid |-> Null]

\* one entry of the fallback loop of build_catalog
AppEntryOf(row) ==
    [id |-> row.id, name |-> row.name, moonlight_name |-> row.moonlight_name,
     enabled |-> row.enabled, sort_order |-> row.sort_order,
     installed |-> row.enabled, owned |-> FALSE, chart_rank |-> Null,
     chart_date |-> Null, game_id |-> Null, steam_appid |-> Null]

build_catalog(user_id, org_id, chart_date) ==
    LET chart_rows == SelectChartRows(chart_date)
        catalog == [i \in 1..Len(chart_rows) |->
                       ChartEntryOf(chart_rows[i], i, org_id, user_id)]
    IN  IF catalog # <<>> THEN catalog
        ELSE [i \in 1..Len(apps) |-> AppEntryOf(apps[i])]

\* ------------------------------------------------------------------ accounts
\* fetch_user_record: the ids of the rows with the digest of the username
UserIdsByDigest(digest) ==
    {i \in 1..Len(users) : users[i].username_digest = digest}

\* SELECT settings_json FROM user_settings WHERE user_id=?
SettingsRows(settingsT, user_id) == {r \in settingsT : r.user_id = user_id}

\* mutant: the empty row is inserted whether or not the user has a row
SettingsAfterEnsure_AlwaysInsert(settingsT, user_id) ==
    settingsT \cup {[user_id |-> user_id, settings_json |-> JsonDumps(<<>>)]}

\* ensure_user_settings: the table after the call, and the value returned
SettingsAfterEnsure(settingsT, user_id) ==
    IF SettingsRows(settingsT, user_id) # {} THEN settingsT
    ELSE settingsT \cup {[user_id |-> user_id, settings_json |-> JsonDumps(<<>>)]}

ensure_user_settings(settingsT, user_id) ==
    IF SettingsRows(settingsT, user_id) # {}
    THEN JsonLoads((CHOOSE r \in SettingsRows(settingsT, user_id) : TRUE).settings_json)
    ELSE <<>>

\* mutant: the new settings are merged into the stored ones
update_user_settings_Merge(settingsT, user_id, settings) ==
    LET old == ensure_user_settings(settingsT, user_id)
        merged == [k \in DOMAIN old \cup DOMAIN settings |->
                      IF k \in DOMAIN settings THEN settings[k] ELSE old[k]]
    IN  (settingsT \ SettingsRows(settingsT, user_id))
        \cup {[user_id |-> user_id, settings_json |-> JsonDumps(merged)]}

\* update_user_settings: INSERT ... ON CONFLICT(user_id) DO UPDATE
update_user_settings(settingsT, user_id, settings) ==
    (settingsT \ SettingsRows(settingsT, user_id))
    \cup {[user_id |-> user_id, settings_json |-> JsonDumps(settings)]}

\* build_login_response, on the tables as the handler left them
build_login_response(user_row, user_id, username_input, orgsT, membT, settingsT) ==
    LET stored_username == decrypt_username(user_row.username_cipher)
        orgList == fetch_orgs_for_user(orgsT, membT, user_id)
        primary_org == IF orgList # <<>> THEN orgList[1].id ELSE Null
    IN  [status |-> 200, detail |-> "",
         user_id |-> user_id,
         username |-> IF stored_username # <<>> THEN stored_username
                      ELSE username_input,
         apps |-> build_catalog(user_id, primary_org, Null),
         settings |-> ensure_user_settings(settingsT, user_id),
         orgs |-> orgList]

\* ensure_default_org: the table after the call, and the id returned
\* the texts "default" and "CouchSuite Default"
DefaultSlug == <<100, 101, 102, 97, 117, 108, 116>>
DefaultOrgName ==
    <<67, 111, 117, 99, 104, 83, 117, 105, 116, 101, 32, 68, 101, 102, 97, 117, 108, 116>>

\* mutant: the lookup of the default organization finds nothing
DefaultOrgIds_None(orgsT) == {}

DefaultOrgIds(orgsT) == {i \in 1..Len(orgsT) : orgsT[i].slug = DefaultSlug}

OrgsAfterEnsureDefault(orgsT) ==
    IF DefaultOrgIds(orgsT) # {} THEN orgsT
    ELSE Append(orgsT, [slug |-> DefaultSlug, name |-> DefaultOrgName])

ensure_default_org(orgsT) ==
    IF DefaultOrgIds(orgsT) # {} THEN CHOOSE i \in DefaultOrgIds(orgsT) : TRUE
    ELSE Len(orgsT) + 1

\* mutant: the membership row is not written
InsertOrIgnoreMembership_Dropped(membT, org_id, user_id, role) == membT

\* INSERT OR IGNORE INTO memberships
InsertOrIgnoreMembership(membT, org_id, user_id, role) ==
    IF user_in_org(membT, user_id, org_id) THEN membT
    ELSE membT \cup {[org_id |-> org_id, user_id |-> user_id, role |-> role]}

\* POST /users
create_user(username_in, password, salt) ==
    LET username == Strip(username_in)
        digest == username_digest(username)
        record == hash_password(password, salt)
        total_users == Len(users)
        row == [username_digest |-> digest,
                username_cipher |-> encrypt_username(username),
                password_hash |-> record.hash,
                password_salt |-> record.salt,
                password_iterations |-> record.iterations]
        user_id == Len(users) + 1
        orgsT == OrgsAfterEnsureDefault(orgs)
        role == IF total_users = 0 THEN "owner" ELSE "member"
        membT == InsertOrIgnoreMembership(memberships, ensure_default_org(orgs),
                                          user_id, role)
    IN  /\ req' = [op |-> "register", username |-> username_in,
                   password |-> password]
        /\ IF username = <<>> THEN
              /\ resp' = HttpError(400, "username required")
              /\ UNCHANGED <<acctVars, catVars, scopedVars>>
           ELSE IF password = <<>> THEN
              /\ resp' = HttpError(400, "password required")
              /\ UNCHANGED <<acctVars, catVars, scopedVars>>
           ELSE IF UserIdsByDigest(digest) # {} THEN
              /\ resp' = HttpError(409, "username already exists")
              /\ UNCHANGED <<acctVars, catVars, scopedVars>>
           ELSE
              /\ Len(users) < MaxUsers
              /\ users' = Append(users, row)
              /\ orgs' = orgsT
              /\ memberships' = membT
              /\ user_settings' = SettingsAfterEnsure(user_settings, user_id)
              /\ resp' = build_login_response(row, user_id, username, orgsT, membT,
                                              user_settings)
              /\ registered' = registered \cup
                    {[username |-> username_in, password |-> password,
                      user_id |-> user_id]}
              /\ UNCHANGED <<catVars, scopedVars>>

\* mutant: an unknown username is reported as such
UnknownUserError_Leaky == HttpError(404, "user not found")

\* the two raises of login
UnknownUserError == HttpError(401, "invalid credentials")

WrongPasswordError == HttpError(401, "invalid credentials")

\* POST /auth/login
login(username_in, password) ==
    LET username == Strip(username_in)
        found == UserIdsByDigest(username_digest(username))
        user_id == CHOOSE i \in found : TRUE
        user_row == users[user_id]
    IN  /\ req' = [op |-> "login", username |-> username_in, password |-> password]
        /\ IF found = {} THEN
              /\ resp' = UnknownUserError
              /\ UNCHANGED <<acctVars, catVars, scopedVars>>
           ELSE IF ~verify_password(password, user_row.password_hash,
                                    user_row.password_salt,
                                    user_row.password_iterations) THEN
              /\ resp' = WrongPasswordError
              /\ UNCHANGED <<acctVars, catVars, scopedVars>>
           ELSE
              /\ user_settings' = SettingsAfterEnsure(user_settings, user_id)
              /\ resp' = build_login_response(user_row, user_id, username, orgs,
                                              memberships, user_settings)
              /\ UNCHANGED <<users, orgs, memberships, registered, catVars,
                             scopedVars>>

\* GET /users/{user_id}/settings
get_settings(user_id) ==
    /\ req' = [op |-> "get_settings", user_id |-> user_id]
    /\ IF user_id \notin 1..Len(users) THEN
          /\ resp' = HttpError(404, "user not found")
          /\ UNCHANGED <<acctVars, catVars, scopedVars>>
       ELSE
          /\ user_settings' = SettingsAfterEnsure(user_settings, user_id)
          /\ resp' = [status |-> 200, detail |-> "",
                      settings |-> ensure_user_settings(user_settings, user_id)]
          /\ UNCHANGED <<users, orgs, memberships, registered, catVars, scopedVars>>

\* PUT /users/{user_id}/settings
put_settings(user_id, settings) ==
    /\ req' = [op |-> "put_settings", user_id |-> user_id, settings |-> settings]
    /\ IF user_id \notin 1..Len(users) THEN
          /\ resp' = HttpError(404, "user not found")
          /\ UNCHANGED <<acctVars, catVars, scopedVars>>
       ELSE
          /\ user_settings' = update_user_settings(user_settings, user_id, settings)
          /\ resp' = [status |-> 200, detail |-> "", settings |-> settings]
          /\ UNCHANGED <<users, orgs, memberships, registered, catVars, scopedVars>>

\* ------------------------------------------------------------------ organizations
\* the UNIQUE constraint on orgs.slug: an insert of the slug raises IntegrityError
OrgSlugTaken(orgsT, slug) == \E i \in 1..Len(orgsT) : orgsT[i].slug = slug

\* POST /orgs
create_org(slug_in, name_in) ==
    LET slug == Strip(slug_in)
        name == Strip(name_in)
    IN  /\ req' = [op |-> "create_org", slug |-> slug_in, name |-> name_in]
        /\ IF slug = <<>> \/ name = <<>> THEN
              /\ resp' = HttpError(400, "slug and name required")
              /\ UNCHANGED <<acctVars, catVars, scopedVars>>
           ELSE IF OrgSlugTaken(orgs, slug) THEN
              /\ resp' = HttpError(409, "org slug already exists")
              /\ UNCHANGED <<acctVars, catVars, scopedVars>>
           ELSE
              /\ Len(orgs) < MaxOrgs
              /\ orgs' = Append(orgs, [slug |-> slug, name |-> name])
              /\ resp' = [status |-> 200, detail |-> "", id |-> Len(orgs) + 1,
                          slug |-> slug, name |-> name, role |-> "member"]
              /\ UNCHANGED <<users, memberships, user_settings, registered,
                             catVars, scopedVars>>

\* mutant: the role of an existing row is left alone
UpdateMembershipRole_Skipped(membT, org_id, user_id, role) == membT

\* UPDATE memberships SET role=? WHERE org_id=? AND user_id=?
UpdateMembershipRole(membT, org_id, user_id, role) ==
    {IF m.org_id = org_id /\ m.user_id = user_id
     THEN [m EXCEPT !.role = role] ELSE m : m \in membT}

\* POST /orgs/{org_id}/members: INSERT OR IGNORE, then UPDATE role
add_org_member(org_id, user_id, role_in) ==
    LET role == IF role_in = "" THEN "member" ELSE role_in
    IN  /\ req' = [op |-> "add_org_member", org_id |-> org_id, user_id |-> user_id,
                   role |-> role_in]
        /\ IF org_id \notin 1..Len(orgs) THEN
              /\ resp' = HttpError(404, "org not found")
              /\ UNCHANGED <<acctVars, catVars, scopedVars>>
           ELSE IF user_id \notin 1..Len(users) THEN
              /\ resp' = HttpError(404, "user not found")
              /\ UNCHANGED <<acctVars, catVars, scopedVars>>
           ELSE
              /\ memberships' =
                    UpdateMembershipRole(
                        InsertOrIgnoreMembership(memberships, org_id, user_id, role),
                        org_id, user_id, role)
              /\ resp' = [status |-> 200, detail |-> "", user_id |-> user_id,
                          username |-> decrypt_username(users[user_id].username_cipher),
                          role |-> role]
              /\ UNCHANGED <<users, orgs, user_settings, registered, catVars,
                             scopedVars>>

\* ------------------------------------------------------------------ ownership
\* the library view of user_library for (org_id, user_id) over a library table:
\* rows whose game is missing are skipped
LibraryView(libT, user_id, org_id) ==
    {[org_id |-> org_id, user_id |-> user_id, game_id |-> l.game_id,
      ownership_source |-> l.ownership_source, proof_type |-> l.proof_type,
      proof_value |-> l.proof_value, verified_at |-> l.verified_at,
      install_ready |-> l.game_id \in fetch_install_map(org_id)] :
     l \in {x \in libT : /\ x.org_id = org_id /\ x.user_id = user_id
                         /\ GameRowOf(x.game_id) # {}}}

\* user_library as a function: the response for (user_id, org_id)
user_library(libT, user_id, org_id_in) ==
    LET orgList == fetch_orgs_for_user(orgs, memberships, user_id)
        org_id == IF org_id_in = Null /\ orgList # <<>> THEN orgList[1].id
                  ELSE org_id_in
    IN  IF user_id \notin 1..Len(users) THEN HttpError(404, "user not found")
        ELSE IF org_id_in = Null /\ orgList = <<>> THEN
            [status |-> 200, detail |-> "", library |-> {}]
        ELSE IF ~user_in_org(memberships, user_id, org_id) THEN
            HttpError(403, "user not in organization")
        ELSE [status |-> 200, detail |-> "",
              library |-> LibraryView(libT, user_id, org_id)]

\* GET /users/{user_id}/library
get_user_library(user_id, org_id) ==
    /\ req' = [op |-> "user_library", user_id |-> user_id, org_id |-> org_id]
    /\ resp' = user_library(user_game_library, user_id, org_id)
    /\ UNCHANGED <<acctVars, catVars, scopedVars>>

\* POST /auth/link/steam: upsert on (org_id, user_id, platform)
link_steam_account(user_id, org_id, steam_id, display_name, now) ==
    /\ req' = [op |-> "link_steam_account", user_id |-> user_id, org_id |-> org_id,
               steam_id |-> steam_id, display_name |-> display_name]
    /\ IF ~user_in_org(memberships, user_id, org_id) THEN
          /\ resp' = HttpError(403, "user not in organization")
          /\ UNCHANGED <<acctVars, catVars, scopedVars>>
       ELSE
          /\ user_accounts' =
                {a \in user_accounts :
                    ~(a.org_id = org_id /\ a.user_id = user_id /\ a.platform = "steam")}
                \cup {[org_id |-> org_id, user_id |-> user_id, platform |-> "steam",
                       account_id |-> steam_id, display_name |-> display_name,
                       metadata_json |->
                           [steam_id |-> steam_id, linked_at |-> now,
                            display_name |-> display_name]]}
          /\ resp' = [status |-> 200, detail |-> "", linked |-> TRUE,
                      platform |-> "steam", org_id |-> org_id, user_id |-> user_id]
          /\ UNCHANGED <<acctVars, catVars, user_game_library, sessions>>

\* external_id of the game on the steam platform, or Null
SteamExternalId(game_id) ==
    LET rows == {e \in game_external_ids :
                    e.game_id = game_id /\ e.platform = "steam"}
    IN  IF rows = {} THEN Null ELSE (CHOOSE e \in rows : TRUE).external_id

\* the upsert loop of verify_steam_ownership over game_ids[1..n]
RECURSIVE UpsertLibrary(_, _, _, _, _, _)
UpsertLibrary(libT, game_ids, org_id, user_id, steam_id, now) ==
    IF game_ids = <<>> THEN libT
    ELSE LET game_id == Head(game_ids)
             external_id == SteamExternalId(game_id)
             proof == [steam_id |-> steam_id, external_id |-> external_id,
                       verified_at |-> now]
             old == {l \in libT : l.org_id = org_id /\ l.user_id = user_id
                                  /\ l.game_id = game_id}
             new == IF old = {}
                    THEN [org_id |-> org_id, user_id |-> user_id,
                          game_id |-> game_id, platform |-> "steam",
                          external_id |-> external_id,
                          ownership_source |-> "steam", proof_type |-> "steam",
                          proof_value |-> proof, verified_at |-> now]
                    ELSE [(CHOOSE l \in old : TRUE) EXCEPT
                             !.proof_value = proof, !.verified_at = now,
                             !.ownership_source = "steam"]
         IN  UpsertLibrary((libT \ old) \cup {new}, Tail(game_ids), org_id,
                           user_id, steam_id, now)

\* SELECT game_id FROM game_external_ids WHERE platform='steam', in id order
SteamGameIds ==
    LET rows == {e \in game_external_ids : e.platform = "steam"}
        sorted == OrderBy(rows, [e \in rows |-> e.game_id])
    IN  [i \in 1..Len(sorted) |-> sorted[i].game_id]

\* POST /ownership/verify/steam
verify_steam_ownership(user_id, org_id, steam_id, game_ids_in, now) ==
    LET game_ids == IF game_ids_in # <<>> THEN game_ids_in ELSE SteamGameIds
        libT == UpsertLibrary(user_game_library, game_ids, org_id, user_id,
                              steam_id, now)
    IN  /\ req' = [op |-> "verify_steam_ownership", user_id |-> user_id,
                   org_id |-> org_id, steam_id |-> steam_id,
                   game_ids |-> game_ids_in]
        /\ IF ~user_in_org(memberships, user_id, org_id) THEN
              /\ resp' = HttpError(403, "user not in organization")
              /\ UNCHANGED <<acctVars, catVars, scopedVars>>
           ELSE IF game_ids = <<>> THEN
              /\ resp' = [status |-> 200, detail |-> "", verified |-> <<>>,
                          library |-> {}]
              /\ UNCHANGED <<acctVars, catVars, scopedVars>>
           ELSE
              /\ user_game_library' = libT
              /\ LET view == user_library(libT, user_id, org_id)
                 IN  resp' = IF view.status # 200 THEN view
                             ELSE [status |-> 200, detail |-> "",
                                   verified |-> game_ids,
                                   library |-> view.library]
              /\ UNCHANGED <<acctVars, catVars, user_accounts, sessions>>

\* ------------------------------------------------------------------ sessions
serialize_session(sessT, id) ==
    [status |-> 200, detail |-> "", session |-> [id |-> id] @@ sessT[id]]

\* mutant: a session starts out active
NewSessionRow_Active(org_id, user_id, game_id, uuid, now) ==
    [org_id |-> org_id, user_id |-> user_id, game_id |-> game_id,
     status |-> "active", stream_url |-> uuid,
     created_at |-> now, updated_at |-> now]

\* INSERT INTO sessions(org_id, user_id, game_id, status, stream_url, ...)
NewSessionRow(org_id, user_id, game_id, uuid, now) ==
    [org_id |-> org_id, user_id |-> user_id, game_id |-> game_id,
     status |-> "provisioning", stream_url |-> uuid,
     created_at |-> now, updated_at |-> now]

\* mutant: only updated_at is written
TerminatedRow_StatusKept(row, now) == [row EXCEPT !.updated_at = now]

\* mutant: the update also resets created_at
TerminatedRow_Restarted(row, now) ==
    [row EXCEPT !.status = "terminated", !.updated_at = now, !.created_at = now]

\* UPDATE sessions SET status=?, updated_at=? WHERE id=?
TerminatedRow(row, now) ==
    [row EXCEPT !.status = "terminated", !.updated_at = now]

\* POST /sessions
create_session(org_id, user_id, game_id, uuid, now) ==
    /\ req' = [op |-> "create_session", org_id |-> org_id, user_id |-> user_id,
               game_id |-> game_id]
    /\ IF ~user_in_org(memberships, user_id, org_id) THEN
          /\ resp' = HttpError(403, "user not in organization")
          /\ UNCHANGED <<acctVars, catVars, scopedVars>>
       ELSE IF \A g \in games : g.id # game_id THEN
          /\ resp' = HttpError(404, "game not found")
          /\ UNCHANGED <<acctVars, catVars, scopedVars>>
       ELSE IF game_id \notin fetch_install_map(org_id) THEN
          /\ resp' = HttpError(409, "game not installed for organization")
          /\ UNCHANGED <<acctVars, catVars, scopedVars>>
       ELSE
          /\ Len(sessions) < MaxSessions
          /\ sessions' = Append(sessions,
                                 NewSessionRow(org_id, user_id, game_id, uuid, now))
          /\ resp' = serialize_session(sessions', Len(sessions) + 1)
          /\ UNCHANGED <<acctVars, catVars, user_accounts, user_game_library>>

\* GET /sessions/{session_id}
get_session(session_id) ==
    /\ req' = [op |-> "get_session", session_id |-> session_id]
    /\ resp' = IF session_id \notin 1..Len(sessions)
               THEN HttpError(404, "session not found")
               ELSE serialize_session(sessions, session_id)
    /\ UNCHANGED <<acctVars, catVars, scopedVars>>

\* DELETE /sessions/{session_id}
terminate_session(session_id, now) ==
    /\ req' = [op |-> "terminate_session", session_id |-> session_id]
    /\ IF session_id \notin 1..Len(sessions) THEN
          /\ resp' = HttpError(404, "session not found")
          /\ UNCHANGED <<acctVars, catVars, scopedVars>>
       ELSE
          /\ sessions' = [sessions EXCEPT
                              ![session_id] = TerminatedRow(sessions[session_id], now)]
          /\ resp' = serialize_session(sessions', session_id)
          /\ UNCHANGED <<acctVars, catVars, user_accounts, user_game_library>>

\* ------------------------------------------------------------------ catalog endpoints
\* GET /apps; enabled is the set of values the filter lets through
list_apps(enabled, chart_date) ==
    LET catalog == build_catalog(Null, Null, chart_date)
    IN  /\ req' = [op |-> "list_apps", enabled |-> enabled, chart_date |-> chart_date]
        /\ resp' = [status |-> 200, detail |-> "",
                    apps |-> SelectSeq(catalog, LAMBDA e : e.enabled \in enabled)]
        /\ UNCHANGED <<acctVars, catVars, scopedVars>>

\* GET /repo/default: list_apps without the enabled filter
default_repo(chart_date) ==
    /\ req' = [op |-> "default_repo", chart_date |-> chart_date]
    /\ resp' = [status |-> 200, detail |-> "",
                apps |-> build_catalog(Null, Null, chart_date)]
    /\ UNCHANGED <<acctVars, catVars, scopedVars>>

\* GET /games/{game_id}
game_details(game_id) ==
    /\ req' = [op |-> "game_details", game_id |-> game_id]
    /\ resp' = IF \A g \in games : g.id # game_id
               THEN HttpError(404, "game not found")
               ELSE [status |-> 200, detail |-> "",
                     game |-> CHOOSE g \in games : g.id = game_id,
                     external_ids |-> {[platform |-> e.platform,
                                        external_id |-> e.external_id] :
                                       e \in {x \in game_external_ids :
                                                 x.game_id = game_id}}]
    /\ UNCHANGED <<acctVars, catVars, scopedVars>>

\* GET /users/exists
users_exist ==
    /\ req' = [op |-> "users_exist"]
    /\ resp' = [status |-> 200, detail |-> "", has_users |-> Len(users) > 0]
    /\ UNCHANGED <<acctVars, catVars, scopedVars>>

\* GET /orgs: ORDER BY name (equal names in id order)
list_orgs ==
    LET ids == 1..Len(orgs)
        before(i) == {j \in ids : LexLess(orgs[j].name, orgs[i].name)}
        sorted == OrderBy(ids, [i \in ids |->
                                   Cardinality(before(i)) * (Len(orgs) + 1) + i])
    IN  /\ req' = [op |-> "list_orgs"]
        /\ resp' = [status |-> 200, detail |-> "",
                    orgs |-> [k \in 1..Len(sorted) |->
                                [id |-> sorted[k], slug |-> orgs[sorted[k]].slug,
                                 name |-> orgs[sorted[k]].name, role |-> "member"]]]
        /\ UNCHANGED <<acctVars, catVars, scopedVars>>

\* GET /orgs/{org_id}/members: memberships JOIN users ORDER BY m.role DESC, u.id
\* (RoleRank: "owner", then "member", then texts that sort before "member")
list_org_members(org_id) ==
    LET RoleRank(role) ==
            IF role = "owner" THEN 0 ELSE IF role = "member" THEN 1 ELSE 2
        rows == {m \in memberships :
                    m.org_id = org_id /\ m.user_id \in 1..Len(users)}
        sorted == OrderBy(rows, [m \in rows |->
                                    RoleRank(m.role) * (Len(users) + 1) + m.user_id])
    IN  /\ req' = [op |-> "list_org_members", org_id |-> org_id]
        /\ resp' = IF org_id \notin 1..Len(orgs)
                   THEN HttpError(404, "org not found")
                   ELSE [status |-> 200, detail |-> "",
                         members |-> [k \in 1..Len(sorted) |->
                            [user_id |-> sorted[k].user_id,
                             username |-> decrypt_username(
                                 users[sorted[k].user_id].username_cipher),
                             role |-> sorted[k].role]]]
        /\ UNCHANGED <<acctVars, catVars, scopedVars>>

\* mutant: the catalog of a user also makes sure the user has a settings row
user_apps_get_EnsuringSettings(user_id, org_id_in) ==
    /\ req' = [op |-> "user_apps", user_id |-> user_id, org_id |-> org_id_in]
    /\ resp' = IF user_id \notin 1..Len(users)
               THEN HttpError(404, "user not found")
               ELSE [status |-> 200, detail |-> "",
                     apps |-> build_catalog(user_id, org_id_in, Null)]
    /\ user_settings' = SettingsAfterEnsure(user_settings, user_id)
    /\ UNCHANGED <<users, orgs, memberships, registered, catVars, scopedVars>>

\* GET /users/{user_id}/apps
user_apps_get(user_id, org_id_in) ==
    LET orgList == fetch_orgs_for_user(orgs, memberships, user_id)
        org_id == IF org_id_in # Null THEN org_id_in
                  ELSE IF orgList # <<>> THEN orgList[1].id ELSE Null
    IN  /\ req' = [op |-> "user_apps", user_id |-> user_id, org_id |-> org_id_in]
        /\ resp' = IF user_id \notin 1..Len(users)
                   THEN HttpError(404, "user not found")
                   ELSE [status |-> 200, detail |-> "",
                         apps |-> build_catalog(user_id, org_id, Null)]
        /\ UNCHANGED <<acctVars, catVars, scopedVars>>

\* PUT /users/{user_id}/apps/{app_id}: the upsert is committed before the
\* catalog is searched for the app
update_user_app(user_id, app_id, installed) ==
    LET orgList == fetch_orgs_for_user(orgs, memberships, user_id)
        org_id == IF orgList # <<>> THEN orgList[1].id ELSE Null
        repo == build_catalog(user_id, org_id, Null)
        hits == {i \in 1..Len(repo) : repo[i].id = app_id}
        first == CHOOSE i \in hits : \A j \in hits : i <= j
    IN  /\ req' = [op |-> "update_user_app", user_id |-> user_id,
                   app_id |-> app_id, installed |-> installed]
        /\ IF user_id \notin 1..Len(users) THEN
              /\ resp' = HttpError(404, "user not found")
              /\ UNCHANGED <<acctVars, catVars, scopedVars>>
           ELSE IF AppRowOf(app_id) = {} THEN
              /\ resp' = HttpError(404, "app not found")
              /\ UNCHANGED <<acctVars, catVars, scopedVars>>
           ELSE
              /\ user_apps' =
                    {r \in user_apps : ~(r.user_id = user_id /\ r.app_id = app_id)}
                    \cup {[user_id |-> user_id, app_id |-> app_id,
                           installed |-> installed]}
              /\ resp' = IF hits # {}
                         THEN [status |-> 200, detail |-> "", app |-> repo[first]]
                         ELSE HttpError(500, "failed to update app")
              /\ UNCHANGED <<acctVars, apps, games, game_external_ids,
                             charts_top10, downloaded_games, scopedVars>>

\* one entry of GET /charts/top10
Top10EntryOf(row, org_id) ==
    LET game_rows == GameRowOf(row.game_id)
    IN  [rank |-> row.rank, chart_date |-> row.chart_date,
         steam_appid |-> row.steam_appid,
         game |-> IF game_rows # {}
                  THEN [id |-> row.game_id,
                        slug |-> (CHOOSE g \in game_rows : TRUE).slug,
                        name |-> (CHOOSE g \in game_rows : TRUE).name]
                  ELSE [id |-> 0, slug |-> ChartSlug(row.chart_date, row.rank),
                        name |-> row.name],
         install_ready |-> IF row.game_id # Null
                           THEN row.game_id \in fetch_install_map(org_id)
                           ELSE FALSE]

\* GET /charts/top10
charts_top10_get(date, org_id) ==
    LET rows == SelectChartRows(date)
    IN  /\ req' = [op |-> "charts_top10", date |-> date, org_id |-> org_id]
        /\ resp' = [status |-> 200, detail |-> "",
                    entries |-> [i \in 1..Len(rows) |-> Top10EntryOf(rows[i], org_id)]]
        /\ UNCHANGED <<acctVars, catVars, scopedVars>>

\* POST /apps; the primary key of apps raises IntegrityError
create_app(app_in) ==
    /\ req' = [op |-> "create_app", app |-> app_in]
    /\ IF AppRowOf(app_in.id) # {} THEN
          /\ resp' = HttpError(409, "id already exists")
          /\ UNCHANGED <<acctVars, catVars, scopedVars>>
       ELSE
          /\ Len(apps) < MaxApps
          /\ apps' = Append(apps, app_in)
          /\ resp' = [status |-> 200, detail |-> "", app |-> app_in]
          /\ UNCHANGED <<acctVars, user_apps, games, game_external_ids,
                         charts_top10, downloaded_games, scopedVars>>

\* PUT /apps/{app_id}
update_app(app_id, app_in) ==
    /\ req' = [op |-> "update_app", app_id |-> app_id, app |-> app_in]
    /\ IF AppRowOf(app_id) = {} THEN
          /\ resp' = HttpError(404, "not found")
          /\ UNCHANGED <<acctVars, catVars, scopedVars>>
       ELSE
          /\ apps' = [i \in 1..Len(apps) |->
                        IF apps[i].id = app_id
                        THEN [app_in EXCEPT !.id = app_id] ELSE apps[i]]
          /\ resp' = [status |-> 200, detail |-> "", app |-> app_in]
          /\ UNCHANGED <<acctVars, user_apps, games, game_external_ids,
                         charts_top10, downloaded_games, scopedVars>>

\* DELETE /apps/{app_id}
delete_app(app_id) ==
    /\ req' = [op |-> "delete_app", app_id |-> app_id]
    /\ IF AppRowOf(app_id) = {} THEN
          /\ resp' = HttpError(404, "not found")
          /\ UNCHANGED <<acctVars, catVars, scopedVars>>
       ELSE
          /\ apps' = SelectSeq(apps, LAMBDA a : a.id # app_id)
          /\ resp' = [status |-> 200, detail |-> "", deleted |-> app_id]
          /\ UNCHANGED <<acctVars, user_apps, games, game_external_ids,
                         charts_top10, downloaded_games, scopedVars>>

\* the admin tool's "Add row" on charts_top10, key (chart_date, rank)
admin_add_chart_row(chart_date, rank, game_id, name, steam_appid) ==
    /\ Cardinality(charts_top10) < MaxChartRows
    /\ \A c \in charts_top10 : ~(c.chart_date = chart_date /\ c.rank = rank)
    /\ req' = [op |-> "admin_add_chart_row", chart_date |-> chart_date,
               rank |-> rank, game_id |-> game_id]
    /\ resp' = [status |-> 0, detail |-> ""]
    /\ charts_top10' = charts_top10 \cup
                          {[chart_date |-> chart_date, rank |-> rank,
                            steam_appid |-> steam_appid, game_id |-> game_id,
                            name |-> name]}
    /\ UNCHANGED <<acctVars, apps, user_apps, games, game_external_ids,
                   downloaded_games, scopedVars>>

\* the admin tool's "Add row" on downloaded_games (out of band, same file)
admin_add_download(org_id, game_id) ==
    /\ [org_id |-> org_id, game_id |-> game_id] \notin downloaded_games
    /\ req' = [op |-> "admin_add_download", org_id |-> org_id, game_id |-> game_id]
    /\ resp' = [status |-> 0, detail |-> ""]
    /\ downloaded_games' = downloaded_games \cup
                              {[org_id |-> org_id, game_id |-> game_id]}
    /\ UNCHANGED <<acctVars, apps, user_apps, games, game_external_ids,
                   charts_top10, scopedVars>>

\* the admin tool's "Delete rows" on user_settings (out of band, same file)
admin_delete_settings_row(user_id) ==
    /\ SettingsRows(user_settings, user_id) # {}
    /\ req' = [op |-> "admin_delete_settings_row", user_id |-> user_id]
    /\ resp' = [status |-> 0, detail |-> ""]
    /\ user_settings' = user_settings \ SettingsRows(user_settings, user_id)
    /\ UNCHANGED <<users, orgs, memberships, registered, catVars, scopedVars>>

\* encrypt_username, then decrypt_username of the result
cipher_round_trip(username) ==
    /\ req' = [op |-> "cipher_round_trip", username |-> username]
    /\ resp' = [status |-> 0, detail |-> "",
                cipher |-> encrypt_username(username),
                plain |-> decrypt_username(encrypt_username(username))]
    /\ UNCHANGED <<acctVars, catVars, scopedVars>>

\* hash_password of a password and salt, then verify_password of a candidate
\* against the record
password_check(password, salt, candidate) ==
    LET record == hash_password(password, salt)
    IN  /\ req' = [op |-> "password_check", password |-> password, salt |-> salt,
                   candidate |-> candidate]
        /\ resp' = [status |-> 0, detail |-> "",
                    ok |-> verify_password(candidate, record.hash, record.salt,
                                           record.iterations)]
        /\ UNCHANGED <<acctVars, catVars, scopedVars>>

\* ------------------------------------------------------------------ concurrent registrations
\* POST /users handled by several threads at once, each on its own connection.
\* In this specification req holds the requests in flight (per request: its
\* username, its position in create_user and its locals) and resp.of their
\* responses. The SELECTs run outside a transaction; the first INSERT takes
\* the store's write lock, which is held until the next commit, so each write
\* transaction is one step.
Procs == 1..MaxProcs

\* the UNIQUE constraint on users.username_digest: an insert of the digest
\* raises IntegrityError
UsernameDigestTaken(usersT, digest) ==
    \E i \in 1..Len(usersT) : usersT[i].username_digest = digest

registrations_arrive(names) ==
    /\ req.op = "none"
    /\ req' = [op |-> "registrations", username |-> names,
               pc |-> [r \in Procs |-> "count"],
               total_users |-> [r \in Procs |-> 0],
               user_id |-> [r \in Procs |-> Null]]
    /\ resp' = [status |-> 0, detail |-> "",
                of |-> [r \in Procs |-> [status |-> 0, detail |-> ""]]]
    /\ UNCHANGED <<acctVars, catVars, scopedVars>>

\* SELECT COUNT(1) FROM users
reg_count(r) ==
    /\ req.op = "registrations"
    /\ req.pc[r] = "count"
    /\ req' = [req EXCEPT !.total_users[r] = Len(users), !.pc[r] = "check"]
    /\ UNCHANGED <<resp, acctVars, catVars, scopedVars>>

\* SELECT 1 FROM users WHERE username_digest=?
reg_check(r) ==
    LET digest == username_digest(Strip(req.username[r]))
    IN  /\ req.op = "registrations"
        /\ req.pc[r] = "check"
        /\ IF UserIdsByDigest(digest) # {} THEN
              /\ req' = [req EXCEPT !.pc[r] = "done"]
              /\ resp' = [resp EXCEPT
                             !.of[r] = HttpError(409, "username already exists")]
           ELSE
              /\ req' = [req EXCEPT !.pc[r] = "insert"]
              /\ resp' = resp
        /\ UNCHANGED <<acctVars, catVars, scopedVars>>

\* INSERT INTO users, ensure_default_org and, when the default organization
\* exists already, the membership insert: up to the first commit. An
\* IntegrityError of the INSERT is not caught and becomes a 500.
reg_insert(r) ==
    LET username == Strip(req.username[r])
        digest == username_digest(username)
        record == hash_password(<<112>>, <<1>>)
        row == [username_digest |-> digest,
                username_cipher |-> encrypt_username(username),
                password_hash |-> record.hash,
                password_salt |-> record.salt,
                password_iterations |-> record.iterations]
        user_id == Len(users) + 1
        role == IF req.total_users[r] = 0 THEN "owner" ELSE "member"
    IN  /\ req.op = "registrations"
        /\ req.pc[r] = "insert"
        /\ IF UsernameDigestTaken(users, digest) THEN
              /\ req' = [req EXCEPT !.pc[r] = "done"]
              /\ resp' = [resp EXCEPT
                             !.of[r] = HttpError(500, "Internal Server Error")]
              /\ UNCHANGED <<acctVars, catVars, scopedVars>>
           ELSE
              /\ users' = Append(users, row)
              /\ orgs' = OrgsAfterEnsureDefault(orgs)
              /\ IF DefaultOrgIds(orgs) = {} THEN
                    /\ memberships' = memberships
                    /\ req' = [req EXCEPT !.user_id[r] = user_id,
                                          !.pc[r] = "member"]
                 ELSE
                    /\ memberships' =
                          InsertOrIgnoreMembership(memberships,
                                                   ensure_default_org(orgs),
                                                   user_id, role)
                    /\ req' = [req EXCEPT !.user_id[r] = user_id,
                                          !.pc[r] = "respond"]
              /\ UNCHANGED <<resp, user_settings, registered, catVars, scopedVars>>

\* INSERT OR IGNORE INTO memberships and the commit, after ensure_default_org
\* has committed the new organization
reg_member(r) ==
    LET role == IF req.total_users[r] = 0 THEN "owner" ELSE "member"
    IN  /\ req.op = "registrations"
        /\ req.pc[r] = "member"
        /\ memberships' =
              InsertOrIgnoreMembership(memberships, ensure_default_org(orgs),
                                       req.user_id[r], role)
        /\ req' = [req EXCEPT !.pc[r] = "respond"]
        /\ UNCHANGED <<resp, users, orgs, user_settings, registered, catVars,
                       scopedVars>>

\* build_login_response of the new user
reg_respond(r) ==
    LET user_id == req.user_id[r]
    IN  /\ req.op = "registrations"
        /\ req.pc[r] = "respond"
        /\ user_settings' = SettingsAfterEnsure(user_settings, user_id)
        /\ resp' = [resp EXCEPT
                       !.of[r] = build_login_response(users[user_id], user_id,
                                                      Strip(req.username[r]),
                                                      orgs, memberships,
                                                      user_settings)]
        /\ registered' = registered \cup
              {[username |-> req.username[r], password |-> <<112>>,
                user_id |-> user_id]}
        /\ req' = [req EXCEPT !.pc[r] = "done"]
        /\ UNCHANGED <<users, orgs, memberships, catVars, scopedVars>>

\* ------------------------------------------------------------------ inputs
\* usernames "", " ", "a", "A", " A", "a ", "b", "B"
Usernames == {<<>>, <<32>>, <<97>>, <<65>>, <<32, 65>>, <<97, 32>>, <<98>>, <<66>>}
\* usernames "a", "b"
PlainUsernames == {<<97>>, <<98>>}
\* passwords "", " ", "p"
Passwords == {<<>>, <<32>>, <<112>>}
Salts == {<<b>> : b \in 1..MaxSalt}
UserIds == 1..(MaxUsers + 1)
SessionIds == 1..(MaxSessions + 1)
Times == 1..MaxTime
SettingKeys == {"a", "b"}
SettingsInputs == UNION {[K -> {1}] : K \in SUBSET SettingKeys}

\* app rows "doom" (the slug of the seeded game) and "b", named "A" or "B"
AppIn(id, name, enabled, sort_order) ==
    [id |-> id, name |-> name, moonlight_name |-> <<77>>, enabled |-> enabled,
     sort_order |-> sort_order]

AppInputs ==
    {AppIn(<<100, 111, 111, 109>>, <<65>>, TRUE, 2),
     AppIn(<<100, 111, 111, 109>>, <<66>>, FALSE, 1),
     AppIn(<<98>>, <<65>>, TRUE, 1),
     AppIn(<<98>>, <<66>>, FALSE, 2)}

AppIds == {a.id : a \in AppInputs}

\* the seeded games table: "doom" / "Doom", "quake" / "Quake", then a game
\* with an empty slug
Game(i) ==
    [id |-> i,
     slug |-> IF i = 1 THEN <<100, 111, 111, 109>>
              ELSE IF i = 2 THEN <<113, 117, 97, 107, 101>> ELSE <<>>,
     name |-> IF i = 1 THEN <<68, 111, 111, 109>>
              ELSE IF i = 2 THEN <<81, 117, 97, 107, 101>> ELSE <<71>>]

\* ------------------------------------------------------------------ specifications
EmptyStore ==
    /\ users = <<>>
    /\ orgs = <<>>
    /\ memberships = {}
    /\ user_settings = {}
    /\ apps = <<>>
    /\ user_apps = {}
    /\ game_external_ids = {}
    /\ downloaded_games = {}
    /\ user_accounts = {}
    /\ user_game_library = {}
    /\ sessions = <<>>
    /\ req = [op |-> "none"]
    /\ resp = [status |-> 0, detail |-> ""]
    /\ registered = {}

\* accounts: registration and login over usernames that differ in case and
\* surrounding whitespace
Init ==
    /\ EmptyStore
    /\ games = {Game(1)}
    /\ charts_top10 = {}

Register == \E u \in Usernames, p \in Passwords, s \in Salts : create_user(u, p, s)

Login == \E u \in Usernames, p \in Passwords : login(u, p)

Next == Register \/ Login

Spec == Init /\ [][Next]_vars

\* settings: plain registrations, then reads and writes of the settings blob
RegisterPlain == \E u \in PlainUsernames : create_user(u, <<112>>, <<1>>)

LoginPlain == \E u \in PlainUsernames : login(u, <<112>>)

GetSettings == \E u \in UserIds : get_settings(u)

PutSettings == \E u \in UserIds, v \in SettingsInputs : put_settings(u, v)

NextSettings == RegisterPlain \/ LoginPlain \/ GetSettings \/ PutSettings

SpecSettings == Init /\ [][NextSettings]_vars

\* sessions: one user, the default organization and organization "x"; the
\* admin tool records downloads of the seeded game
\* ids of the rows these requests name: the first is the row that can exist
\* (the one user, the seeded game), the second is absent or the other organization
SomeUserIds == {1, 2}
SomeOrgIds == {1, 2}
SomeGameIds == {1, 2}

RegisterOne == create_user(<<97>>, <<112>>, <<1>>)

CreateOrgX == create_org(<<120>>, <<88>>)

AddMember == \E o \in SomeOrgIds, u \in SomeUserIds : add_org_member(o, u, "")

AdminAddDownload == \E o \in SomeOrgIds : admin_add_download(o, 1)

CreateSession ==
    \E o \in SomeOrgIds, u \in SomeUserIds, g \in SomeGameIds, t \in Times :
        create_session(o, u, g, 1, t)

GetSession == \E i \in SessionIds : get_session(i)

TerminateSession == \E i \in SessionIds, t \in Times : terminate_session(i, t)

NextSessions ==
    \/ RegisterOne
    \/ CreateOrgX
    \/ AddMember
    \/ AdminAddDownload
    \/ CreateSession
    \/ GetSession
    \/ TerminateSession

SpecSessions == Init /\ [][NextSessions]_vars

\* organization-scoped operations of a user who is a member of one
\* organization and not of the other; the clock stands at 1
CreateSessionAtOne ==
    \E o \in SomeOrgIds, u \in SomeUserIds, g \in SomeGameIds : create_session(o, u, g, 1, 1)

GetLibrary == \E u \in SomeUserIds, o \in {Null} \cup SomeOrgIds : get_user_library(u, o)

LinkSteam ==
    \E u \in SomeUserIds, o \in SomeOrgIds :
        link_steam_account(u, o, "steam-1", <<>>, 1)

VerifyOwnership ==
    \E u \in SomeUserIds, o \in SomeOrgIds, g \in {<<>>, <<1>>} :
        verify_steam_ownership(u, o, "steam-1", g, 1)

NextScoped ==
    \/ RegisterOne
    \/ CreateOrgX
    \/ AddMember
    \/ AdminAddDownload
    \/ CreateSessionAtOne
    \/ GetLibrary
    \/ LinkSteam
    \/ VerifyOwnership

SpecScoped == Init /\ [][NextScoped]_vars

\* catalog: chart snapshots whose rows name the seeded game, a game id that
\* matches no game row, or no game; a download recorded for the latter id
AdminAddChartRow ==
    \E d \in 1..MaxDate, r \in 1..MaxRank, g \in {Null} \cup SomeGameIds :
        admin_add_chart_row(d, r, g, <<67>>, 730)

AdminAddDownloadOrphan == admin_add_download(1, 2)

ListApps == \E e \in {BOOLEAN, {FALSE}}, d \in 0..MaxDate : list_apps(e, d)

ChartsTop10 == \E d \in 0..MaxDate : charts_top10_get(d, Null)

NextCatalog ==
    AdminAddChartRow \/ AdminAddDownloadOrphan \/ ListApps \/ ChartsTop10

SpecCatalog == Init /\ [][NextCatalog]_vars

\* the catalog of a user: two users, two organizations, downloads and verified
\* ownership of the seeded game per organization and user, one chart snapshot
AdminAddChartRowOne ==
    \E r \in {1, 2} :
        admin_add_chart_row(1, r, IF r = 1 THEN 1 ELSE Null, <<67>>, 730)

AddMemberX == \E u \in SomeUserIds : add_org_member(2, u, "")

VerifyOwned ==
    \E u \in SomeUserIds, o \in SomeOrgIds :
        verify_steam_ownership(u, o, "steam-1", <<1>>, 1)

UserApps == \E u \in SomeUserIds, o \in {Null} \cup SomeOrgIds : user_apps_get(u, o)

NextUserCatalog ==
    \/ RegisterPlain
    \/ CreateOrgX
    \/ AddMemberX
    \/ AdminAddDownload
    \/ AdminAddChartRowOne
    \/ VerifyOwned
    \/ UserApps

SpecUserCatalog == Init /\ [][NextUserCatalog]_vars

\* apps: the app table is created, updated and deleted through the API, one
\* user registers, a chart snapshot may appear, and the catalog is read
CreateApp == \E a \in AppInputs : create_app(a)

UpdateApp == \E a \in AppInputs : update_app(a.id, a)

DeleteApp == \E i \in AppIds : delete_app(i)

ListAppsAll == \E d \in {Null, 2} : list_apps(BOOLEAN, d)

UserAppsOne == \E u \in SomeUserIds : user_apps_get(u, Null)

UpdateUserApp ==
    \E u \in SomeUserIds, i \in AppIds, x \in BOOLEAN : update_user_app(u, i, x)

NextApps ==
    \/ RegisterOne
    \/ CreateApp
    \/ UpdateApp
    \/ DeleteApp
    \/ AdminAddChartRowOne
    \/ ListAppsAll
    \/ UserAppsOne
    \/ UpdateUserApp

SpecApps == Init /\ [][NextApps]_vars

\* organizations: two users register, organizations "default" and "x" are
\* created through the API before or after, members are added with a role
\* slugs "", "default", " default", "x"
OrgSlugs == {<<>>, DefaultSlug, <<32>> \o DefaultSlug, <<120>>}

Roles == {"", "owner", "member"}

CreateOrg == \E g \in OrgSlugs : create_org(g, <<88>>)

AddMemberRole ==
    \E o \in 1..(MaxOrgs + 1), u \in UserIds, r \in Roles : add_org_member(o, u, r)

NextOrgs == RegisterPlain \/ CreateOrg \/ AddMemberRole

SpecOrgs == Init /\ [][NextOrgs]_vars

\* library: a member verifies ownership of lists of game ids: the seeded
\* game, an id no game has, a repeated id, or none
GameIdLists == {<<>>, <<1>>, <<2>>, <<1, 1>>, <<1, 2>>}

VerifyGames ==
    \E u \in SomeUserIds, o \in SomeOrgIds, g \in GameIdLists, t \in Times :
        verify_steam_ownership(u, o, "steam-1", g, t)

NextLibrary == RegisterOne \/ AdminAddDownload \/ VerifyGames \/ GetLibrary

SpecLibrary == Init /\ [][NextLibrary]_vars

\* lazy settings: as the settings specification, and the admin tool may
\* delete a settings row, which leaves an existing user without one
NextLazySettings ==
    \/ RegisterPlain
    \/ LoginPlain
    \/ GetSettings
    \/ PutSettings
    \/ \E u \in UserIds : admin_delete_settings_row(u)

SpecLazySettings == Init /\ [][NextLazySettings]_vars

\* credentials: the username cipher and the password hash on texts of up to
\* MaxLen bytes, and logins under other spellings of the registered names
\* the bytes " ", "A" and one byte of a multi-byte character
Texts == UNION {[1..n -> {32, 65, 200}] : n \in 0..MaxLen}

\* salts of the bytes 0 and 255
SaltTexts == UNION {[1..n -> {0, 255}] : n \in 0..MaxLen}

\* usernames " Abc", "abc ", "B"
SpelledUsernames == {<<32, 65, 98, 99>>, <<97, 98, 99, 32>>, <<66>>}

NextCredentials ==
    \/ \E u \in SpelledUsernames : create_user(u, <<112>>, <<1>>)
    \/ \E u \in SpelledUsernames : login(u, <<112>>)
    \/ \E u \in Texts : cipher_round_trip(u)
    \/ \E p \in Passwords, c \in Passwords, salt \in SaltTexts :
           password_check(p, salt, c)

SpecCredentials == Init /\ [][NextCredentials]_vars

\* roles: members are added with whatever role text the request carries
NextRoles ==
    \/ RegisterPlain
    \/ CreateOrgX
    \/ \E o \in SomeOrgIds, u \in UserIds, r \in {"", "owner", "member", "admin"} :
           add_org_member(o, u, r)

SpecRoles == Init /\ [][NextRoles]_vars

\* concurrent registrations: the requests arrive together, under usernames
\* "a", "A " and "b", and their steps interleave
NextConcurrent ==
    \/ \E names \in [Procs -> {<<97>>, <<65, 32>>, <<98>>}] :
           registrations_arrive(names)
    \/ \E r \in Procs : reg_count(r)
    \/ \E r \in Procs : reg_check(r)
    \/ \E r \in Procs : reg_insert(r)
    \/ \E r \in Procs : reg_member(r)
    \/ \E r \in Procs : reg_respond(r)

SpecConcurrent == Init /\ [][NextConcurrent]_vars

\* sessions through the API alone: the store starts with the seeded game and
\* with download rows (for the seeded game, and one for a game id no game
\* has); nothing but API requests follows; the clock stands at 1
SeededDownloads ==
    {[org_id |-> 1, game_id |-> 1], [org_id |-> 2, game_id |-> 1],
     [org_id |-> 1, game_id |-> 2]}

InitSeeded ==
    /\ users = <<>>
    /\ orgs = <<>>
    /\ memberships = {}
    /\ user_settings = {}
    /\ apps = <<>>
    /\ user_apps = {}
    /\ games = {Game(1)}
    /\ game_external_ids = {}
    /\ charts_top10 = {}
    /\ downloaded_games \in SUBSET SeededDownloads
    /\ user_accounts = {}
    /\ user_game_library = {}
    /\ sessions = <<>>
    /\ req = [op |-> "none"]
    /\ resp = [status |-> 0, detail |-> ""]
    /\ registered = {}

NextApiSessions ==
    \/ RegisterPlain
    \/ CreateOrgX
    \/ AddMember
    \/ CreateSessionAtOne
    \/ GetSession
    \/ \E i \in SessionIds : terminate_session(i, 1)

SpecApiSessions == InitSeeded /\ [][NextApiSessions]_vars

\* two sessions: the store as the server left it after user "a" registered,
\* the seeded game was downloaded for the default organization and the user
\* created two sessions at time 1; sessions are then read and terminated
\* while users register and log in
SeededUserRow ==
    [username_digest |-> username_digest(<<97>>),
     username_cipher |-> encrypt_username(<<97>>),
     password_hash |-> hash_password(<<112>>, <<1>>).hash,
     password_salt |-> hash_password(<<112>>, <<1>>).salt,
     password_iterations |-> hash_password(<<112>>, <<1>>).iterations]

InitTwoSessions ==
    /\ users = <<SeededUserRow>>
    /\ orgs = <<[slug |-> DefaultSlug, name |-> DefaultOrgName]>>
    /\ memberships = {[org_id |-> 1, user_id |-> 1, role |-> "owner"]}
    /\ user_settings = {[user_id |-> 1, settings_json |-> JsonDumps(<<>>)]}
    /\ apps = <<>>
    /\ user_apps = {}
    /\ games = {Game(1)}
    /\ game_external_ids = {}
    /\ charts_top10 = {}
    /\ downloaded_games = {[org_id |-> 1, game_id |-> 1]}
    /\ user_accounts = {}
    /\ user_game_library = {}
    /\ sessions = <<NewSessionRow(1, 1, 1, 1, 1), NewSessionRow(1, 1, 1, 2, 1)>>
    /\ req = [op |-> "none"]
    /\ resp = [status |-> 0, detail |-> ""]
    /\ registered = {[username |-> <<97>>, password |-> <<112>>, user_id |-> 1]}

SomeSessionIds == {1, 2, 3}

NextTwoSessions ==
    \/ RegisterPlain
    \/ LoginPlain
    \/ \E i \in SomeSessionIds : get_session(i)
    \/ \E i \in SomeSessionIds, t \in Times : terminate_session(i, t)

SpecTwoSessions == InitTwoSessions /\ [][NextTwoSessions]_vars

\* reads: a store with a user, a chart snapshot, download rows and a session,
\* settings rows that the admin tool may delete, and every GET endpoint
NextReads ==
    \/ RegisterOne
    \/ AdminAddChartRowOne
    \/ admin_add_download(1, 1)
    \/ admin_delete_settings_row(1)
    \/ create_session(1, 1, 1, 1, 1)
    \/ ListAppsAll
    \/ \E d \in {Null, 2} : default_repo(d)
    \/ ChartsTop10
    \/ \E g \in SomeGameIds : game_details(g)
    \/ users_exist
    \/ list_orgs
    \/ \E o \in SomeOrgIds : list_org_members(o)
    \/ UserAppsOne
    \/ \E u \in SomeUserIds : get_user_library(u, Null)
    \/ GetSession
    \/ \E u \in SomeUserIds : get_settings(u)

SpecReads == Init /\ [][NextReads]_vars

\* ------------------------------------------------------------------ claims
\* the normalization the claims speak of: trim surrounding whitespace, lower-case
Normalize(u) == Lower(Strip(u))

\* the earlier successful registrations of the username of the last request
EarlierRegistrations(username) ==
    {r \in registered : Normalize(r.username) = Normalize(username)}

\* C1 (as stated): once register(u, p) has succeeded, every later register(u', p')
\* with Normalize(u') = Normalize(u) fails with 409 and leaves the user rows as
\* they were.
C1_Original ==
    [][(req'.op = "register" /\ EarlierRegistrations(req'.username) # {})
        => (resp'.status = 409 /\ users' = users)]_vars

\* C1 (amended): once register(u, p) has succeeded, every later register(u', p')
\* with Normalize(u') = Normalize(u) fails and leaves the user rows as they were:
\* with 409 when p' is not empty, with 400 (password required) when p' is empty.
C1_DuplicateRejected ==
    [][(req'.op = "register" /\ EarlierRegistrations(req'.username) # {})
        => /\ users' = users
           /\ resp'.status = IF req'.password = <<>> THEN 400 ELSE 409]_vars

\* C1 witness: a second registration under another spelling of a registered
\* username was answered 409.
C1_Witness ==
    /\ req.op = "register"
    /\ resp.status = 409
    /\ \E r \in registered : r.username # req.username
                             /\ Normalize(r.username) = Normalize(req.username)

\* C2: after register(u, p) returned user id i, a login(u', p) with
\* Normalize(u') = Normalize(u) succeeds and returns i.
C2_LoginSameId ==
    req.op = "login" =>
        \A r \in EarlierRegistrations(req.username) :
            r.password = req.password =>
                resp.status = 200 /\ resp.user_id = r.user_id

\* C2 witness: a login under another spelling of the registered username
\* succeeded.
C2_Witness ==
    /\ req.op = "login"
    /\ resp.status = 200
    /\ \E r \in registered : /\ r.username # req.username
                             /\ Lower(r.username) # Lower(req.username)
                             /\ Strip(r.username) # Strip(req.username)
                             /\ r.user_id = resp.user_id

\* C3: a login for a username nobody registered and a login for a registered
\* username with another password get one and the same response: 401 with the
\* same detail.
C3_SameFailure ==
    (req.op = "login"
     /\ \A r \in EarlierRegistrations(req.username) : r.password # req.password)
        => resp = [status |-> 401, detail |-> "invalid credentials"]

\* C3 witness: both failures are reachable on one store: a user is registered,
\* and the failed login is for that user with a wrong password.
C3_Witness ==
    /\ req.op = "login"
    /\ resp.status = 401
    /\ EarlierRegistrations(req.username) # {}
    /\ Len(users) = 1

\* C8: a get_settings right after a successful put_settings(u, s) for the same
\* user returns exactly s, whatever was stored before the put (keys of the old
\* value that s lacks are gone).
C8_PutThenGet ==
    [][(req.op = "put_settings" /\ resp.status = 200
        /\ req'.op = "get_settings" /\ req'.user_id = req.user_id)
        => (resp'.status = 200 /\ resp'.settings = req.settings
            /\ DOMAIN resp'.settings = DOMAIN req.settings)]_vars

\* C8 witness: a get_settings returned a one-key value.
C8_Witness ==
    /\ req.op = "get_settings"
    /\ resp.status = 200
    /\ DOMAIN resp.settings = {"b"}

\* the rows the claims speak of
MembershipRow(org_id, user_id) ==
    \E m \in memberships : m.org_id = org_id /\ m.user_id = user_id

DownloadRow(org_id, game_id) ==
    [org_id |-> org_id, game_id |-> game_id] \in downloaded_games

GameExists(game_id) == \E g \in games : g.id = game_id

\* C4: create_session by a member for an existing game answers 409 and adds no
\* session row while the organization has no downloaded_games row for the game
\* (rows of other organizations do not count); with the row present it succeeds
\* and the new session is "provisioning".
C4_SessionNeedsDownload ==
    [][(req'.op = "create_session"
        /\ MembershipRow(req'.org_id, req'.user_id)
        /\ GameExists(req'.game_id))
        => IF DownloadRow(req'.org_id, req'.game_id)
           THEN /\ resp'.status = 200
                /\ resp'.session.status = "provisioning"
                /\ Len(sessions') = Len(sessions) + 1
                /\ sessions'[Len(sessions')].status = "provisioning"
           ELSE /\ resp'.status = 409
                /\ sessions' = sessions]_vars

\* C4 witness: 409 for a member while another organization has the download.
C4_Witness ==
    /\ req.op = "create_session"
    /\ resp.status = 409
    /\ MembershipRow(req.org_id, req.user_id)
    /\ \E d \in downloaded_games : d.game_id = req.game_id /\ d.org_id # req.org_id

\* C5: terminate_session answers 404 and changes no session when the id does not
\* exist; for an existing session, terminated already or not, it succeeds and
\* the session is "terminated" in the response and in the store.
C5_Terminate ==
    [][req'.op = "terminate_session"
        => IF req'.session_id \in 1..Len(sessions)
           THEN /\ resp'.status = 200
                /\ resp'.session.status = "terminated"
                /\ sessions'[req'.session_id].status = "terminated"
           ELSE /\ resp'.status = 404
                /\ sessions' = sessions]_vars

\* C5 witness: a session terminated again, at a later time than its first
\* termination left in updated_at of another terminated session.
C5_Witness ==
    /\ req.op = "terminate_session"
    /\ resp.status = 200
    /\ resp.session.status = "terminated"
    /\ resp.session.updated_at # resp.session.created_at

\* C6: every session is "provisioning" or "terminated"; a new session is
\* "provisioning"; a status only changes from "provisioning" to "terminated";
\* a terminated session stays terminated and no session row disappears.
C6_SessionLifecycle ==
    [][/\ Len(sessions') >= Len(sessions)
       /\ \A i \in 1..Len(sessions') :
            /\ sessions'[i].status \in {"provisioning", "terminated"}
            /\ i > Len(sessions) => sessions'[i].status = "provisioning"
            /\ i <= Len(sessions) =>
                 /\ sessions[i].status = "terminated"
                      => sessions'[i].status = "terminated"
                 /\ sessions'[i].status # sessions[i].status
                      => /\ sessions[i].status = "provisioning"
                         /\ sessions'[i].status = "terminated"]_vars

\* C6 witness: a terminated session was read back after its termination.
C6_Witness ==
    /\ req.op = "get_session"
    /\ resp.status = 200
    /\ sessions[req.session_id].status = "terminated"

OrgScopedOps ==
    {"user_library", "link_steam_account", "verify_steam_ownership", "create_session"}

\* C7: an organization-scoped request for (user, organization) without a
\* membership row never succeeds and writes nothing; it is answered 403 whenever
\* the user exists.
C7_MembershipGate ==
    [][(req'.op \in OrgScopedOps /\ req'.org_id # Null
        /\ ~MembershipRow(req'.org_id, req'.user_id))
        => /\ resp'.status # 200
           /\ store' = store
           /\ req'.user_id \in 1..Len(users) => resp'.status = 403]_vars

\* C7 witness: an existing user was refused ownership verification in an
\* existing organization the user is a member of no more than by name.
C7_Witness ==
    /\ req.op = "verify_steam_ownership"
    /\ resp.status = 403
    /\ req.user_id \in 1..Len(users)
    /\ req.org_id \in 1..Len(orgs)
    /\ \E m \in memberships : m.user_id = req.user_id

\* the snapshot a request for chart_date selects: that date, or the greatest
\* chart_date of the table when the date is omitted
SelectedDate(chart_date) ==
    IF chart_date # Null THEN chart_date
    ELSE IF charts_top10 = {} THEN Null
    ELSE CHOOSE d \in {c.chart_date : c \in charts_top10} :
            \A c \in charts_top10 : d >= c.chart_date

SnapshotRows(chart_date) ==
    {c \in charts_top10 : c.chart_date = SelectedDate(chart_date)}

\* C9: when the selected snapshot has rows, the unfiltered catalog has one entry
\* per row of the snapshot, in strictly ascending chart_rank; the entry of a row
\* without a game, or whose game_id matches no game, carries the chart fields
\* and game_id = Null, installed = FALSE, owned = FALSE.
C9_OneEntryPerChartRow ==
    (req.op = "list_apps" /\ req.enabled = BOOLEAN
     /\ SnapshotRows(req.chart_date) # {})
        => /\ Len(resp.apps) = Cardinality(SnapshotRows(req.chart_date))
           /\ \A i, j \in 1..Len(resp.apps) :
                i < j => resp.apps[i].chart_rank < resp.apps[j].chart_rank
           /\ \A c \in SnapshotRows(req.chart_date) :
                \E i \in 1..Len(resp.apps) :
                    /\ resp.apps[i].chart_rank = c.rank
                    /\ resp.apps[i].chart_date = c.chart_date
                    /\ resp.apps[i].steam_appid = c.steam_appid
                    /\ (c.game_id = Null \/ ~GameExists(c.game_id))
                         => /\ resp.apps[i].game_id = Null
                            /\ resp.apps[i].installed = FALSE
                            /\ resp.apps[i].owned = FALSE
                            /\ resp.apps[i].name = c.name
                            /\ resp.apps[i].moonlight_name = c.name
                    /\ (c.game_id # Null /\ GameExists(c.game_id))
                         => resp.apps[i].game_id = c.game_id

\* C9 witness: a catalog of two entries, the first resolved to a game, the
\* second from a chart row whose game_id matches no game and has a download row.
C9_Witness ==
    /\ req.op = "list_apps"
    /\ req.enabled = BOOLEAN
    /\ Len(resp.apps) = 2
    /\ resp.apps[1].game_id = 1
    /\ resp.apps[2].game_id = Null
    /\ \E c \in SnapshotRows(req.chart_date) :
          c.rank = 2 /\ c.game_id = 2 /\ DownloadRow(1, 2)

\* C10: every chart-derived entry of a catalog (GET /apps) and every entry of
\* GET /charts/top10 carries the chart_date asked for, or the greatest
\* chart_date of the table when none was asked for.
C10_SingleSnapshot ==
    /\ req.op = "list_apps" =>
          \A i \in 1..Len(resp.apps) :
              resp.apps[i].chart_date # Null =>
                  resp.apps[i].chart_date = SelectedDate(req.chart_date)
    /\ req.op = "charts_top10" =>
          \A i \in 1..Len(resp.entries) :
              resp.entries[i].chart_date = SelectedDate(req.date)

\* C10 witness: no date asked for, two snapshots in the table, entries returned.
C10_Witness ==
    /\ req.op = "list_apps"
    /\ req.chart_date = Null
    /\ Len(resp.apps) > 0
    /\ Cardinality({c.chart_date : c \in charts_top10}) = 2
    /\ \A i \in 1..Len(resp.apps) : resp.apps[i].chart_date = 2

LibraryRow(org_id, user_id, game_id) ==
    \E l \in user_game_library :
        l.org_id = org_id /\ l.user_id = user_id /\ l.game_id = game_id

\* the organization a catalog request of a user is built for: the one asked
\* for, or the user's organization when the user is a member of exactly one
CatalogOrg(user_id, org_id) ==
    LET mine == {m.org_id : m \in {x \in memberships : x.user_id = user_id}}
    IN  IF org_id # Null THEN org_id
        ELSE IF Cardinality(mine) = 1 THEN CHOOSE o \in mine : TRUE
        ELSE Null

\* C11: in the catalog of GET /users/{u}/apps built for organization o, every
\* entry that resolves to a game g has installed = TRUE exactly when a
\* downloaded_games row (o, g) exists and owned = TRUE exactly when a
\* user_game_library row (o, u, g) exists; rows of other organizations or other
\* users do not count.
C11_InstalledOwnedFlags ==
    (req.op = "user_apps" /\ resp.status = 200
     /\ CatalogOrg(req.user_id, req.org_id) # Null)
        => \A i \in 1..Len(resp.apps) :
              resp.apps[i].game_id # Null =>
                  /\ resp.apps[i].installed =
                        DownloadRow(CatalogOrg(req.user_id, req.org_id),
                                    resp.apps[i].game_id)
                  /\ resp.apps[i].owned =
                        LibraryRow(CatalogOrg(req.user_id, req.org_id),
                                   req.user_id, resp.apps[i].game_id)

\* C11 witness: an entry of the game is neither installed nor owned, while
\* another organization has the download, another user of the organization
\* owns the game, and the user owns it in another organization.
C11_Witness ==
    /\ req.op = "user_apps"
    /\ resp.status = 200
    /\ req.org_id # Null
    /\ \E i \in 1..Len(resp.apps) :
          /\ resp.apps[i].game_id = 1
          /\ resp.apps[i].installed = FALSE
          /\ resp.apps[i].owned = FALSE
    /\ \E d \in downloaded_games : d.game_id = 1 /\ d.org_id # req.org_id
    /\ \E l \in user_game_library :
          l.game_id = 1 /\ l.org_id = req.org_id /\ l.user_id # req.user_id
    /\ \E l \in user_game_library :
          l.game_id = 1 /\ l.org_id # req.org_id /\ l.user_id = req.user_id

\* the fallback entry the claims describe for an app row
IsFallbackEntry(entry, row) ==
    /\ entry.id = row.id
    /\ entry.name = row.name
    /\ entry.moonlight_name = row.moonlight_name
    /\ entry.enabled = row.enabled
    /\ entry.sort_order = row.sort_order
    /\ entry.installed = row.enabled
    /\ entry.owned = FALSE
    /\ entry.chart_rank = Null
    /\ entry.chart_date = Null
    /\ entry.game_id = Null

\* a catalog request (GET /apps unfiltered, GET /users/{u}/apps) whose chart
\* selection yields no rows
FallbackRequest ==
    \/ req.op = "list_apps" /\ req.enabled = BOOLEAN
          /\ SnapshotRows(req.chart_date) = {}
    \/ req.op = "user_apps" /\ req.user_id \in 1..Len(users)
          /\ SnapshotRows(Null) = {}

\* C12: when the chart selection yields no rows (no chart rows at all, or none
\* for the date asked for), the catalog is exactly the app table: the request
\* succeeds, every entry is the fallback entry of an app row (installed =
\* enabled, owned = FALSE, chart_rank, chart_date and game_id null) and every
\* app row has exactly one entry; with no app rows the catalog is empty.
C12_FallbackIsAppTable ==
    FallbackRequest =>
        /\ resp.status = 200
        /\ Len(resp.apps) = Len(apps)
        /\ \A i \in 1..Len(resp.apps) :
              \E j \in 1..Len(apps) : IsFallbackEntry(resp.apps[i], apps[j])
        /\ \A j \in 1..Len(apps) :
              Cardinality({i \in 1..Len(resp.apps) : resp.apps[i].id = apps[j].id}) = 1

\* C12 witness: chart rows exist, but none for the date asked for; the catalog
\* is the two app rows, one of them disabled and so not installed.
C12_Witness ==
    /\ req.op = "list_apps"
    /\ req.chart_date = 2
    /\ charts_top10 # {}
    /\ Len(resp.apps) = 2
    /\ \E i \in 1..2 : resp.apps[i].enabled = FALSE /\ resp.apps[i].installed = FALSE
    /\ \E i \in 1..2 : resp.apps[i].enabled = TRUE /\ resp.apps[i].installed = TRUE

\* C13: in the fallback catalog the entries are ordered by sort_order
\* ascending and, among equal sort_order, by name, whatever the order in which
\* the apps were created.
C13_FallbackOrdered ==
    FallbackRequest =>
        \A i, j \in 1..Len(resp.apps) :
            i < j =>
                \/ resp.apps[i].sort_order < resp.apps[j].sort_order
                \/ /\ resp.apps[i].sort_order = resp.apps[j].sort_order
                   /\ ~LexLess(resp.apps[j].name, resp.apps[i].name)

\* the app rows and user rows the claims speak of
AppExists(app_id) == \E i \in 1..Len(apps) : apps[i].id = app_id

UserExists(user_id) == user_id \in 1..Len(users)

\* C14: for an existing user u and an existing app a, PUT /users/{u}/apps/{a}
\* with installed = x succeeds and returns the catalog entry of a with
\* installed = x, and every later GET /users/{u}/apps reports installed = x
\* for a (the value of the user_apps row), overriding the enabled default.
C14_InstalledOverride ==
    [][/\ (req'.op = "update_user_app" /\ UserExists(req'.user_id)
            /\ AppExists(req'.app_id))
          => /\ resp'.status = 200
             /\ resp'.app.id = req'.app_id
             /\ resp'.app.installed = req'.installed
       /\ (req'.op = "user_apps" /\ resp'.status = 200)
          => \A r \in user_apps' :
                (r.user_id = req'.user_id /\ AppExists(r.app_id)')
                   => \E i \in 1..Len(resp'.apps) :
                         /\ resp'.apps[i].id = r.app_id
                         /\ resp'.apps[i].installed = r.installed]_vars

\* C15: a request answered with an error status (400, 401, 403, 404, 409, 500)
\* leaves every table of the store as it was before the request.
C15_ErrorsWriteNothing ==
    [][resp'.status \in {400, 401, 403, 404, 409, 500} => store' = store]_vars

\* C16: from a store without users, the first successful registration leaves
\* an organization with slug "default" in the store (created if absent, the
\* organizations unchanged otherwise), a membership of the new user in it with
\* role "owner", and that organization with role "owner" in the response.
C16_FirstUserOwnsDefault ==
    [][(Len(users) = 0 /\ req'.op = "register" /\ resp'.status = 200)
        => /\ OrgSlugTaken(orgs, DefaultSlug) => orgs' = orgs
           /\ \E i \in 1..Len(orgs') :
                 /\ orgs'[i].slug = DefaultSlug
                 /\ [org_id |-> i, user_id |-> resp'.user_id, role |-> "owner"]
                       \in memberships'
                 /\ \E k \in 1..Len(resp'.orgs) :
                       /\ resp'.orgs[k].id = i
                       /\ resp'.orgs[k].slug = DefaultSlug
                       /\ resp'.orgs[k].role = "owner"]_vars

\* C16 witness: the first user registered after POST /orgs had created "x" and
\* "default"; the user owns the second organization, the one the API created.
C16_Witness ==
    /\ req.op = "register"
    /\ resp.status = 200
    /\ Len(users) = 1
    /\ Len(orgs) = 2
    /\ orgs[2].slug = DefaultSlug
    /\ orgs[2].name # DefaultOrgName
    /\ resp.orgs = <<[id |-> 2, slug |-> DefaultSlug, name |-> orgs[2].name,
                      role |-> "owner"]>>

\* C17: register answers 400 whenever the username or the password is blank
\* (empty or only whitespace), and then no user, organization or membership
\* row is created.
C17_BlankRejected ==
    [][(req'.op = "register"
        /\ (Strip(req'.username) = <<>> \/ Strip(req'.password) = <<>>))
        => /\ resp'.status = 400
           /\ users' = users
           /\ orgs' = orgs
           /\ memberships' = memberships]_vars

\* the rows of a membership key
MembershipRows(membT, org_id, user_id) ==
    {m \in membT : m.org_id = org_id /\ m.user_id = user_id}

\* C18: add_org_member answers 404 and writes nothing when the organization or
\* the user does not exist; otherwise it succeeds, and afterwards the pair has
\* exactly one membership row, with the role of this call ("member" when the
\* call gives none); the rows of other pairs are as before.
C18_AddMemberUpsert ==
    [][req'.op = "add_org_member"
        => IF req'.org_id \in 1..Len(orgs) /\ req'.user_id \in 1..Len(users)
           THEN /\ resp'.status = 200
                /\ MembershipRows(memberships', req'.org_id, req'.user_id) =
                      {[org_id |-> req'.org_id, user_id |-> req'.user_id,
                        role |-> IF req'.role = "" THEN "member" ELSE req'.role]}
                /\ memberships' \ MembershipRows(memberships', req'.org_id,
                                                 req'.user_id)
                      = memberships \ MembershipRows(memberships, req'.org_id,
                                                     req'.user_id)
           ELSE /\ resp'.status = 404
                /\ store' = store]_vars

\* C18 witness: the owner of the default organization was made a member by a
\* later call: still one row for the pair, with the later role.
C18_Witness ==
    /\ req.op = "add_org_member"
    /\ req.role = "member"
    /\ resp.status = 200
    /\ req.user_id = 1
    /\ orgs[req.org_id].slug = DefaultSlug
    /\ MembershipRows(memberships, req.org_id, 1) =
          {[org_id |-> req.org_id, user_id |-> 1, role |-> "member"]}
    /\ \E r \in registered : r.user_id = 1

C20_VerifiedInLibrary ==
    (req.op = "verify_steam_ownership" /\ resp.status = 200)
        => \A k \in 1..Len(resp.verified) :
              /\ Cardinality({l \in user_game_library :
                                 /\ l.org_id = req.org_id
                                 /\ l.user_id = req.user_id
                                 /\ l.game_id = resp.verified[k]}) = 1
              /\ \E e \in resp.library : e.game_id = resp.verified[k]

\* C21: get_settings for an existing user without a settings row returns the
\* empty map and creates the empty row of that user; get_settings and
\* put_settings for a user id that does not exist answer 404 and create no
\* row; register, login, get_settings and put_settings never leave a user
\* with more than one settings row.
C21_LazySettingsRow ==
    [][/\ (req'.op = "get_settings" /\ UserExists(req'.user_id)
            /\ SettingsRows(user_settings, req'.user_id) = {})
          => /\ resp'.status = 200
             /\ resp'.settings = <<>>
             /\ user_settings' = user_settings \cup
                   {[user_id |-> req'.user_id, settings_json |-> {}]}
       /\ (req'.op \in {"get_settings", "put_settings"}
            /\ ~UserExists(req'.user_id))
          => (resp'.status = 404 /\ user_settings' = user_settings)
       /\ req'.op \in {"register", "login", "get_settings", "put_settings"}
          => \A u \in UserIds :
                Cardinality(SettingsRows(user_settings', u)) <= 1]_vars

\* C21 witness: a user who had written settings lost the row, and the read
\* that followed returned the empty map and left the empty row.
C21_Witness ==
    /\ req.op = "get_settings"
    /\ resp.status = 200
    /\ resp.settings = <<>>
    /\ user_settings = {[user_id |-> req.user_id, settings_json |-> {}]}
    /\ Len(users) = 2

\* C22: the username of a successful login is the whitespace-trimmed
\* username as typed at registration, in its original letter case, whatever
\* spelling the login used; and decrypt_username(encrypt_username(u)) = u for
\* every username u.
C22_UsernameRecovered ==
    /\ (req.op = "login" /\ resp.status = 200)
          => \E r \in registered :
                r.user_id = resp.user_id /\ resp.username = Strip(r.username)
    /\ req.op = "cipher_round_trip" => resp.plain = req.username

\* C22 witness: "abc " logged in and was answered with "Abc", the name
\* registered as " Abc".
C22_Witness ==
    /\ req.op = "login"
    /\ resp.status = 200
    /\ req.username = <<97, 98, 99, 32>>
    /\ resp.username = <<65, 98, 99>>
    /\ \E r \in registered : r.username = <<32, 65, 98, 99>>

C24_RolesOwnerOrMember == \A m \in memberships : m.role \in {"owner", "member"}

\* C25: create_app with an id that exists answers 409, update_app and
\* delete_app with an id that does not exist answer 404, and in each case the
\* app table is left as it was: no row created, modified or removed.
C25_AppErrorsKeepTable ==
    [][/\ (req'.op = "create_app" /\ AppExists(req'.app.id))
          => (resp'.status = 409 /\ apps' = apps)
       /\ (req'.op \in {"update_app", "delete_app"} /\ ~AppExists(req'.app_id))
          => (resp'.status = 404 /\ apps' = apps)]_vars

\* C25 witness: a POST with the id of an existing app and other fields was
\* answered 409, beside another app row; the stored row is not the posted one.
C25_Witness ==
    /\ req.op = "create_app"
    /\ resp.status = 409
    /\ Len(apps) = 2
    /\ \E i \in 1..2 : apps[i].id = req.app.id /\ apps[i] # req.app

\* the concurrent registrations have all been answered
AllAnswered == req.op = "registrations" /\ \A r \in Procs : req.pc[r] = "done"

\* the requests that registered the normalized username of request r
SameName(r) == {q \in Procs : Normalize(req.username[q]) = Normalize(req.username[r])}

\* C26: when registrations of one normalized username run concurrently, then
\* afterwards at most one user row has the digest of that username, exactly
\* one of the requests succeeded and every other one was answered 409.
C26_ConcurrentDuplicate ==
    AllAnswered =>
        \A r \in Procs :
            Cardinality(SameName(r)) > 1 =>
                /\ Cardinality(UserIdsByDigest(
                       username_digest(Strip(req.username[r])))) <= 1
                /\ Cardinality({q \in SameName(r) : resp.of[q].status = 200}) = 1
                /\ \A q \in SameName(r) : resp.of[q].status \in {200, 409}

\* C27: after concurrent registrations, every request that succeeded has a
\* membership row of its user in the default organization, exactly one of
\* these rows has role "owner" and all others have role "member".
C27_OneOwner ==
    AllAnswered =>
        LET done == {r \in Procs : resp.of[r].status = 200}
            rowsOf(r) == {m \in memberships :
                            /\ m.user_id = resp.of[r].user_id
                            /\ m.org_id \in DefaultOrgIds(orgs)}
        IN  /\ \A r \in done :
                  /\ rowsOf(r) # {}
                  /\ \A m \in rowsOf(r) : m.role \in {"owner", "member"}
            /\ done # {} =>
                  Cardinality({r \in done :
                                 \E m \in rowsOf(r) : m.role = "owner"}) = 1

\* C28: in every state reached through API requests alone, each session row
\* refers to an existing game, its user has a membership row in its
\* organization, and its game has a downloaded_games row for its organization.
C28_SessionsReferToRows ==
    \A i \in 1..Len(sessions) :
        /\ GameExists(sessions[i].game_id)
        /\ MembershipRow(sessions[i].org_id, sessions[i].user_id)
        /\ DownloadRow(sessions[i].org_id, sessions[i].game_id)

\* C28 witness: a session of the second user in organization "x" exists, the
\* user is a member of both organizations, and a download row names a game
\* id no game has.
C28_Witness ==
    /\ Len(sessions) = 1
    /\ sessions[1].org_id = 2
    /\ sessions[1].user_id = 2
    /\ MembershipRow(1, 2)
    /\ DownloadRow(1, 2)
    /\ ~DownloadRow(1, 1)

\* every table but sessions
otherTables ==
    <<users, orgs, memberships, user_settings, apps, user_apps, games,
      game_external_ids, charts_top10, downloaded_games, user_accounts,
      user_game_library>>

\* C29: terminate_session of session s changes only status and updated_at
\* of s: its org_id, user_id, game_id, stream_url and created_at, the number
\* of sessions, every other session row and every other table stay as they
\* were; get_session changes nothing.
C29_TerminateFrame ==
    [][/\ (req'.op = "terminate_session" /\ req'.session_id \in 1..Len(sessions))
          => /\ Len(sessions') = Len(sessions)
             /\ \A i \in 1..Len(sessions) :
                   i # req'.session_id => sessions'[i] = sessions[i]
             /\ \A f \in {"org_id", "user_id", "game_id", "stream_url",
                            "created_at"} :
                   sessions'[req'.session_id][f] = sessions[req'.session_id][f]
             /\ DOMAIN sessions'[req'.session_id] =
                   DOMAIN sessions[req'.session_id]
             /\ otherTables' = otherTables
       /\ req'.op = "get_session" => store' = store]_vars

\* C29 witness: the second session was terminated at time 2; it keeps its
\* created_at of 1, and the first session is still provisioning.
C29_Witness ==
    /\ req.op = "terminate_session"
    /\ req.session_id = 2
    /\ resp.status = 200
    /\ Len(sessions) = 2
    /\ sessions[2].status = "terminated"
    /\ sessions[2].updated_at = 2
    /\ sessions[2].created_at = 1
    /\ sessions[1].status = "provisioning"

\* GET /apps, /repo/default, /charts/top10, /games/{id}, /users/exists,
\* /orgs, /orgs/{id}/members, /users/{id}/apps, /users/{id}/library and
\* /sessions/{id}
ReadOps ==
    {"list_apps", "default_repo", "charts_top10", "game_details", "users_exist",
     "list_orgs", "list_org_members", "user_apps", "user_library", "get_session"}

\* every table but user_settings
tablesButSettings ==
    <<users, orgs, memberships, apps, user_apps, games, game_external_ids,
      charts_top10, downloaded_games, user_accounts, user_game_library, sessions>>

\* C30: the read endpoints leave every table unchanged, whether they succeed
\* or fail; GET /users/{id}/settings leaves every table but user_settings
\* unchanged and adds at most the empty settings row of that user, when the
\* user had none.
C30_ReadsWriteNothing ==
    [][/\ req'.op \in ReadOps => store' = store
       /\ req'.op = "get_settings"
          => /\ tablesButSettings' = tablesButSettings
             /\ \/ user_settings' = user_settings
                \/ /\ SettingsRows(user_settings, req'.user_id) = {}
                   /\ user_settings' = user_settings \cup
                         {[user_id |-> req'.user_id, settings_json |-> {}]}]_vars

\* C30 witness: the members of the default organization were listed with
\* success on a store that holds a user, a session, a chart row and a
\* download row, the user's settings row being gone.
C30_Witness ==
    /\ req.op = "list_org_members"
    /\ resp.status = 200
    /\ Len(resp.members) = 1
    /\ Len(sessions) = 1
    /\ charts_top10 # {}
    /\ user_settings = {}

====
